---- MODULE Spec2Model ----
(***************************************************************************)
(* gpd-touch-fix: the resume-detection and adaptive-repair core.           *)
(*                                                                         *)
(*   PowerMonitor      power_monitor.go  (src/unnamed/part_001:1270-1342)  *)
(*   WakeEventPoller   power_monitor.go  (src/unnamed/part_001:1401-1725)  *)
(*   gpdTouchService   service.go        (src/unnamed/part_004:19-325)     *)
(*                                                                         *)
(* Every goroutine is a flow with a program counter.  A step of a flow is  *)
(* one access to shared state (a mutex section, a channel operation, an    *)
(* unlocked field access together with the purely local code around it);   *)
(* blocking calls (status query, sleep, Disable/Enable cycle) sit between  *)
(* steps, so that other flows interleave with them.  The device and the    *)
(* idle-time provider are external: every query returns any of the values  *)
(* they can produce.                                                       *)
(***************************************************************************)
EXTENDS Integers, Sequences, FiniteSets, TLC

(***************************************************************************)
(* Bounds of the model.                                                    *)
(***************************************************************************)
MaxNow == 2          \* the poller's clock runs over 0..MaxNow seconds
MaxPMNow == 5        \* the PowerMonitor's clock runs over 0..MaxPMNow seconds
MaxFails == 2        \* consecutiveFails is explored up to this value
MaxRecheck == 1      \* Resume() goroutines alive at the same time
MaxCallbacks == 3    \* PowerMonitor callbacks started in one run

(***************************************************************************)
(* Values of the environment.                                              *)
(***************************************************************************)
\* Status strings of Get-PnpDevice
StatusSet == {"OK", "Error", "Unknown"}
\* GetStatus returned err != nil
QueryErr == "<err>"
StatusResults == StatusSet \cup {QueryErr}
\* GetIdleTime returned err != nil
IdleErr == -1
\* GetIdleTime results in milliseconds, around the two thresholds
IdleMsSet == {0, 60000, 60999, 61000, 299999, 300000}
IdleResults == IdleMsSet \cup {IdleErr}
\* time.Time{} : the zero time, long before the start of the run
ZeroTime == -100000

\* poller configurations (seconds): PollerConfig as startPolling builds it
CfgSet ==
    { [base |-> 1, max |-> 2, retry |-> 0],
      [base |-> 1, max |-> 2, retry |-> 1],
      [base |-> 1, max |-> 2, retry |-> 2],
      [base |-> 2, max |-> 1, retry |-> 0] }

VARIABLES
    \* ---- environment
    now,                \* time.Now(), seconds
    \* ---- WakeEventPoller fields
    baseRetryInterval,
    maxRetryInterval,
    maxRetryCount,
    stopChan,           \* TRUE once close(stopChan) ran
    pauseChan,          \* buffered channel of depth 1
    lastStatus,
    pendingRepair,
    lastRepairTime,
    consecutiveFails,
    currentInterval,
    paused,
    \* ---- locals of poll()
    pollPc,
    status,             \* the tick's status
    reason,             \* the tick's reason ("" while shouldRepair is false)
    exceededMaxRetry,
    \* ---- goroutines started by Resume()
    recheck,
    \* ---- history
    resumeCalls,        \* parity of the number of Resume() calls
    reachedMax,         \* incrementFails reported the limit and no tick saw OK since
    \* ---- PowerMonitor fields
    lastDisplayState,
    lastResumeTime,
    \* ---- PowerMonitor: callbacks and notifications
    callbackCalls,      \* number of  go pm.callback()  statements executed
    pmPending,          \* callback goroutines started and not yet finished
    pmLast,             \* the last notification handled and what it did
    prevTrigger,        \* time of the last call of triggerResume
    \* ---- gpdTouchService: configuration and the thread in Execute's loop
    checkBeforeReset,
    svcPc,
    \* ---- gpdTouchService: one run of handlePowerEvent / handlePolledWake
    logAllEvents,       \* cfg.LogAllEvents
    orch,               \* the run: where it is, what it saw, what it returned
    stats,              \* StatsManager: calls of RecordResume/RecordSkip/RecordReset
    notifier,           \* Notifier: calls of NotifyResumeResult, and the last one
    devCalls,           \* DeviceManager: calls of Disable and Enable
    \* ---- WakeEventPoller.mu and the flows that use it
    mu,                 \* the flow that holds p.mu, or "free"
    lockPc,             \* the next statement of each flow
    \* ---- DeviceManager: one call of Reset
    dm,                 \* where the call is, what it ran, what it returned
    \* ---- StatsManager
    sm,                 \* sm.stats
    today,              \* the date of time.Now()
    statsFile           \* stats.json

cfgVars == << baseRetryInterval, maxRetryInterval, maxRetryCount >>

pollerVars ==
    << cfgVars, stopChan, pauseChan, lastStatus, pendingRepair, lastRepairTime,
       consecutiveFails, currentInterval, paused, pollPc, status, reason,
       exceededMaxRetry, recheck, resumeCalls, reachedMax >>

pmVars ==
    << lastDisplayState, lastResumeTime, callbackCalls, pmPending, pmLast,
       prevTrigger >>

svcVars == << checkBeforeReset, svcPc >>

orchVars == << logAllEvents, orch, stats, notifier, devCalls >>

lockVars == << mu, lockPc >>

smVars == << sm, today, statsFile >>

vars == << now, pollerVars, pmVars, svcVars, orchVars, lockVars, dm, smVars >>

(***************************************************************************)
(* Pure helpers.                                                           *)
(***************************************************************************)
\* a comparison that takes every status for OK
EqualFoldAny(s) == TRUE

\* strings.EqualFold(s, "OK")
EqualFoldOK(s) == s \in {"OK", "Ok", "oK", "ok"}

\* idleSec := -1; if GetIdleTime succeeded, idleSec = int(idleMs / 1000)
IdleSec(idle) == IF idle = IdleErr THEN -1 ELSE idle \div 1000

\* time.Since(t)
Since(t) == now - t

\* other thresholds for the long idle time
LongIdleSecLate == 2 * 300
LongIdleSecEarly == 60 + 1

\* idle thresholds of a tick, seconds
LongIdleSec == 300
ActiveIdleSec == 60

\* select { case p.pauseChan <- v: default: }
TrySend(ch, v) == IF Len(ch) < 1 THEN Append(ch, v) ELSE ch

(***************************************************************************)
(* NewWakeEventPoller, as startPolling calls it: the callback is never     *)
(* nil, a configured interval <= 0 is replaced by the default before the   *)
(* constructor sees it, and nothing relates the two intervals.             *)
(***************************************************************************)
NewWakeEventPoller(cfg) ==
    /\ baseRetryInterval = cfg.base
    /\ maxRetryInterval = cfg.max
    /\ maxRetryCount = cfg.retry
    /\ currentInterval = cfg.base
    /\ stopChan = FALSE
    /\ pauseChan = << >>
    /\ lastStatus = ""
    /\ pendingRepair = FALSE
    /\ lastRepairTime = ZeroTime
    /\ consecutiveFails = 0
    /\ paused = FALSE

InitPoller ==
    /\ now = 0
    /\ \E cfg \in CfgSet : NewWakeEventPoller(cfg)
    /\ pollPc = "init"
    /\ status = ""
    /\ reason = ""
    /\ exceededMaxRetry = FALSE
    /\ recheck = [i \in 1..MaxRecheck |-> "idle"]
    /\ resumeCalls = 0
    /\ reachedMax = FALSE

(***************************************************************************)
(* Retry state.                                                            *)
(***************************************************************************)
\* a limit test that takes maxRetryCount 0 for a limit
LimitReachedAtZero(n) == n >= maxRetryCount

\* incrementFails: whether the limit is reached with n consecutive failures
LimitReached(n) == maxRetryCount > 0 /\ n >= maxRetryCount

\* an interval that doubles without the cap
DoubledUncapped(ci) == ci * 2

\* incrementFails: the interval after a failure below the limit
Doubled(ci) == IF ci * 2 > maxRetryInterval THEN maxRetryInterval ELSE ci * 2

\* incrementFails; its result is ~LimitReached(consecutiveFails')
incrementFails ==
    /\ consecutiveFails' = consecutiveFails + 1
    /\ currentInterval' = IF LimitReached(consecutiveFails + 1)
                            THEN currentInterval
                            ELSE Doubled(currentInterval)
    /\ reachedMax' = (reachedMax \/ LimitReached(consecutiveFails + 1))

\* ResetRetryState
ResetRetryState ==
    /\ consecutiveFails' = 0
    /\ currentInterval' = baseRetryInterval

\* a poll loop that never sees the pause
IsPausedNever == FALSE

\* IsPaused
IsPaused == paused

(***************************************************************************)
(* handlePolledWake, the poller's callback: settle delay, status check     *)
(* (skip when OK), Reset, verification.  A flow is in stage "settle" from  *)
(* the call to the status check after the delay, and in stage "reset"      *)
(* while the Disable/Enable cycle and the verification run.                *)
(***************************************************************************)
\* the status after the settle delay makes the callback return true at once
PolledWakeSkips(res) == res # QueryErr /\ EqualFoldOK(res)

\* the callback's result after Reset (resetOk: Reset returned nil) and the
\* verification query
PolledWakeResult(resetOk, res) == resetOk /\ res # QueryErr /\ EqualFoldOK(res)

(***************************************************************************)
(* Pause, Resume, Stop and the goroutine Resume starts.                    *)
(***************************************************************************)
FreeSlots == { i \in 1..MaxRecheck : recheck[i] = "idle" }
LowestFree == CHOOSE i \in FreeSlots : \A j \in FreeSlots : i <= j

Pause ==
    /\ ~paused
    /\ paused' = TRUE
    /\ pauseChan' = TrySend(pauseChan, TRUE)
    /\ UNCHANGED << smVars, dm, lockVars, orchVars, now, cfgVars, pmVars, svcVars,
                    stopChan, lastStatus, pendingRepair, lastRepairTime,
                    consecutiveFails, currentInterval, pollPc, status, reason,
                    exceededMaxRetry, recheck, resumeCalls, reachedMax >>

\* a Resume that rechecks without having been paused
ResumeRechecksUnpaused == pendingRepair

\* whether Resume starts the deferred recheck
ResumeRechecks == paused /\ pendingRepair

ResumeBody ==
    /\ IF paused
         THEN /\ paused' = FALSE
              /\ pauseChan' = TrySend(pauseChan, FALSE)
         ELSE UNCHANGED << paused, pauseChan >>
    /\ IF ResumeRechecks
         THEN /\ FreeSlots # {}
              /\ recheck' = [recheck EXCEPT ![LowestFree] = "sleep"]
         ELSE UNCHANGED recheck

\* a call of Resume() that finds the poller paused (any other call changes
\* nothing)
Resume ==
    /\ paused
    /\ ResumeBody
    /\ UNCHANGED << smVars, dm, lockVars, orchVars, now, cfgVars, pmVars, svcVars,
                    stopChan, lastStatus, pendingRepair, lastRepairTime,
                    consecutiveFails, currentInterval, pollPc, status, reason,
                    exceededMaxRetry, resumeCalls, reachedMax >>

\* any call of Resume(), counted
ResumeCall ==
    /\ ResumeBody
    /\ resumeCalls' = 1 - resumeCalls
    /\ UNCHANGED << smVars, dm, lockVars, orchVars, now, cfgVars, pmVars, svcVars,
                    stopChan, lastStatus, pendingRepair, lastRepairTime,
                    consecutiveFails, currentInterval, pollPc, status, reason,
                    exceededMaxRetry, reachedMax >>

Stop ==
    /\ ~stopChan
    /\ stopChan' = TRUE
    /\ UNCHANGED << smVars, dm, lockVars, orchVars, now, cfgVars, pmVars, svcVars,
                    pauseChan, lastStatus, pendingRepair, lastRepairTime,
                    consecutiveFails, currentInterval, paused, pollPc, status,
                    reason, exceededMaxRetry, recheck, resumeCalls, reachedMax >>

\* ResetRetryState called from outside the poller (the OEM power event)
ResetRetryStateCall ==
    /\ ResetRetryState
    /\ UNCHANGED << smVars, dm, lockVars, orchVars, now, cfgVars, pmVars, svcVars,
                    stopChan, pauseChan, lastStatus, pendingRepair,
                    lastRepairTime, paused, pollPc, status, reason,
                    exceededMaxRetry, recheck, resumeCalls, reachedMax >>

\* the goroutine's end: success of its callback (FALSE when none was made)
RecheckEnd(i, success) ==
    /\ recheck' = [recheck EXCEPT ![i] = "idle"]
    /\ IF success
         THEN /\ pendingRepair' = FALSE
              /\ ResetRetryState
         ELSE UNCHANGED << pendingRepair, consecutiveFails, currentInterval >>

\* after time.Sleep(2s): dm.GetStatus() returned res
RecheckQuery(i, res) ==
    /\ recheck[i] = "sleep"
    /\ IF res # QueryErr /\ res # "OK"
         THEN /\ recheck' = [recheck EXCEPT ![i] = "settle"]
              /\ UNCHANGED << pendingRepair, consecutiveFails, currentInterval >>
         ELSE /\ recheck' = [recheck EXCEPT ![i] = "idle"]
              /\ pendingRepair' = IF res = "OK" THEN FALSE ELSE pendingRepair
              /\ UNCHANGED << consecutiveFails, currentInterval >>
    /\ UNCHANGED << smVars, dm, lockVars, orchVars, now, cfgVars, pmVars, svcVars,
                    stopChan, pauseChan, lastStatus, lastRepairTime, paused,
                    pollPc, status, reason, exceededMaxRetry, resumeCalls,
                    reachedMax >>

\* the goroutine's callback: status after the settle delay
RecheckSettle(i, res) ==
    /\ recheck[i] = "settle"
    /\ IF PolledWakeSkips(res)
         THEN RecheckEnd(i, TRUE)
         ELSE /\ recheck' = [recheck EXCEPT ![i] = "reset"]
              /\ UNCHANGED << pendingRepair, consecutiveFails, currentInterval >>
    /\ UNCHANGED << smVars, dm, lockVars, orchVars, now, cfgVars, pmVars, svcVars,
                    stopChan, pauseChan, lastStatus, lastRepairTime, paused,
                    pollPc, status, reason, exceededMaxRetry, resumeCalls,
                    reachedMax >>

\* the goroutine's callback: Reset and the verification are over
RecheckReset(i, resetOk, res) ==
    /\ recheck[i] = "reset"
    /\ RecheckEnd(i, PolledWakeResult(resetOk, res))
    /\ UNCHANGED << smVars, dm, lockVars, orchVars, now, cfgVars, pmVars, svcVars,
                    stopChan, pauseChan, lastStatus, lastRepairTime, paused,
                    pollPc, status, reason, exceededMaxRetry, resumeCalls,
                    reachedMax >>

(***************************************************************************)
(* poll(): startup.                                                        *)
(***************************************************************************)
\* what the poll loop does when its callback returned `success`
\*   startup: lastRepairTime, ResetRetryState / incrementFails (result unused)
\*   tick:    the same, a false result of incrementFails sets exceededMaxRetry,
\*            and the tick ends with  p.lastStatus = status
AfterCallback(success) ==
    /\ lastRepairTime' = now
    /\ IF success
         THEN ResetRetryState /\ UNCHANGED reachedMax
         ELSE incrementFails
    /\ IF pollPc \in {"tick_settle", "tick_reset"}
         THEN /\ exceededMaxRetry' =
                    IF ~success /\ LimitReached(consecutiveFails + 1)
                      THEN TRUE ELSE exceededMaxRetry
              /\ lastStatus' = status
         ELSE UNCHANGED << exceededMaxRetry, lastStatus >>
    /\ pollPc' = "select"
    /\ status' = ""
    /\ reason' = ""

\* a startup that never repairs
StartupRepairsNever(res) == FALSE

\* poll() repairs at startup:  err == nil  and  status != "OK"
StartupRepairs(res) == res # QueryErr /\ res # "OK"

\* status, err := dm.GetStatus() at the start of poll()
PollStartup(res) ==
    /\ pollPc = "init"
    /\ lastStatus' = IF res = QueryErr THEN lastStatus ELSE res
    /\ pollPc' = IF StartupRepairs(res) THEN "start_settle" ELSE "select"
    /\ UNCHANGED << smVars, dm, lockVars, orchVars, now, cfgVars, pmVars, svcVars, stopChan, pauseChan,
                    pendingRepair, lastRepairTime, consecutiveFails,
                    currentInterval, paused, status, reason, exceededMaxRetry,
                    recheck, resumeCalls, reachedMax >>

(***************************************************************************)
(* poll(): the callback in the poll goroutine (startup or tick).           *)
(***************************************************************************)
PollSettle(res) ==
    /\ pollPc \in {"start_settle", "tick_settle"}
    /\ IF PolledWakeSkips(res)
         THEN AfterCallback(TRUE)
         ELSE /\ pollPc' = IF pollPc = "start_settle" THEN "start_reset" ELSE "tick_reset"
              /\ UNCHANGED << lastRepairTime, consecutiveFails, currentInterval,
                              reachedMax, exceededMaxRetry, lastStatus, status,
                              reason >>
    /\ UNCHANGED << smVars, dm, lockVars, orchVars, now, cfgVars, pmVars, svcVars, stopChan, pauseChan,
                    pendingRepair, paused, recheck, resumeCalls >>

PollReset(resetOk, res) ==
    /\ pollPc \in {"start_reset", "tick_reset"}
    /\ AfterCallback(PolledWakeResult(resetOk, res))
    /\ UNCHANGED << smVars, dm, lockVars, orchVars, now, cfgVars, pmVars, svcVars, stopChan, pauseChan,
                    pendingRepair, paused, recheck, resumeCalls >>

(***************************************************************************)
(* poll(): the select loop.                                                *)
(***************************************************************************)
\* a poll loop that may end without the stop signal
PollStopUnasked ==
    /\ pollPc \in {"select", "paused_wait"}
    /\ pollPc' = "done"
    /\ UNCHANGED << smVars, dm, lockVars, orchVars, now, cfgVars, pmVars, svcVars, stopChan,
                    pauseChan, lastStatus, pendingRepair, lastRepairTime,
                    consecutiveFails, currentInterval, paused, status, reason,
                    exceededMaxRetry, recheck, resumeCalls, reachedMax >>

\* case <-p.stopChan: return  (outer and inner select)
PollStop ==
    /\ pollPc \in {"select", "paused_wait"}
    /\ stopChan
    /\ pollPc' = "done"
    /\ UNCHANGED << smVars, dm, lockVars, orchVars, now, cfgVars, pmVars, svcVars, stopChan, pauseChan,
                    lastStatus, pendingRepair, lastRepairTime, consecutiveFails,
                    currentInterval, paused, status, reason, exceededMaxRetry,
                    recheck, resumeCalls, reachedMax >>

\* where the inner loop goes on receiving resumed = false:  `break` inside a
\* select statement leaves the select, and the enclosing for loops again
InnerBreakTarget == "paused_wait"

\* case paused := <-p.pauseChan  (outer), case resumed := <-p.pauseChan (inner)
PollRecvPause ==
    /\ pollPc \in {"select", "paused_wait"}
    /\ pauseChan # << >>
    /\ pauseChan' = Tail(pauseChan)
    /\ pollPc' = IF pollPc = "select"
                   THEN (IF Head(pauseChan) THEN "paused_wait" ELSE "select")
                   ELSE (IF Head(pauseChan) THEN "paused_wait" ELSE InnerBreakTarget)
    /\ UNCHANGED << smVars, dm, lockVars, orchVars, now, cfgVars, pmVars, svcVars, stopChan, lastStatus,
                    pendingRepair, lastRepairTime, consecutiveFails,
                    currentInterval, paused, status, reason, exceededMaxRetry,
                    recheck, resumeCalls, reachedMax >>

\* case <-ticker.C with IsPaused() false: the status query starts.  (With
\* IsPaused() true the tick is dropped and nothing changes.)
TickBegin ==
    /\ pollPc = "select"
    /\ ~IsPaused
    /\ pollPc' = IF exceededMaxRetry THEN "exceeded_query" ELSE "tick_query"
    /\ UNCHANGED << smVars, dm, lockVars, orchVars, now, cfgVars, pmVars, svcVars, stopChan, pauseChan,
                    lastStatus, pendingRepair, lastRepairTime, consecutiveFails,
                    currentInterval, paused, status, reason, exceededMaxRetry,
                    recheck, resumeCalls, reachedMax >>

\* an exhausted poller that takes any status for a recovery
ExceededLeavesOnAnyStatus(res) == res # QueryErr

\* if err == nil && status == "OK": the exhausted state is left
ExceededLeaves(res) == res # QueryErr /\ res = "OK"

\* if exceededMaxRetry { ... continue }
ExceededTick(res) ==
    /\ pollPc = "exceeded_query"
    /\ pollPc' = "select"
    /\ IF ExceededLeaves(res)
         THEN /\ ResetRetryState
              /\ exceededMaxRetry' = FALSE
              /\ lastStatus' = res
              /\ reachedMax' = FALSE
         ELSE UNCHANGED << consecutiveFails, currentInterval, exceededMaxRetry,
                           lastStatus, reachedMax >>
    /\ UNCHANGED << smVars, dm, lockVars, orchVars, now, cfgVars, pmVars, svcVars, stopChan, pauseChan,
                    pendingRepair, lastRepairTime, paused, status, reason,
                    recheck, resumeCalls >>

\* a wake repair that takes an unknown idle time for an active user
UserActiveOrUnknown(idleSec) == idleSec <= ActiveIdleSec

\* if idleSec >= 0 && idleSec <= 60: the user is back after the wake
UserActive(idleSec) == idleSec >= 0 /\ idleSec <= ActiveIdleSec

\* a sustained-error retry that waits while the idle time is unknown
UserAwayOrUnknown(idleSec) == idleSec < 0 \/ idleSec > ActiveIdleSec

\* if idleSec >= 0 && idleSec > 60: no retry while the user is away
UserAway(idleSec) == idleSec >= 0 /\ idleSec > ActiveIdleSec

\* a tick that defers the repair whatever it sees
TickPlanAlwaysDefers(st, idleSec) ==
    [pending |-> TRUE, reset |-> FALSE, reason |-> "", store |-> TRUE]

\* The decisions of a tick whose query returned status st, with idleSec:
\*   pending  p.pendingRepair after the decisions
\*   reset    ResetRetryState() is called
\*   reason   the reason of the repair, "" when shouldRepair stays false
\*   store    the tick reaches an assignment  p.lastStatus = status
TickPlan(st, idleSec) ==
    IF st = "OK" THEN
        [pending |-> FALSE, reset |-> FALSE, reason |-> "", store |-> TRUE]
    ELSE IF lastStatus = "OK" THEN
        IF idleSec < 0 \/ idleSec >= LongIdleSec
          THEN [pending |-> TRUE, reset |-> FALSE, reason |-> "", store |-> TRUE]
          ELSE [pending |-> FALSE, reset |-> TRUE, reason |-> "status_change",
                store |-> TRUE]
    ELSE IF pendingRepair THEN
        IF UserActive(idleSec)
          THEN [pending |-> FALSE, reset |-> TRUE,
                reason |-> IF Since(lastRepairTime) > baseRetryInterval
                             THEN "sustained" ELSE "wake_repair",
                store |-> TRUE]
          ELSE [pending |-> TRUE, reset |-> FALSE, reason |-> "", store |-> FALSE]
    ELSE
        IF UserAway(idleSec)
          THEN [pending |-> FALSE, reset |-> FALSE, reason |-> "", store |-> FALSE]
          ELSE [pending |-> FALSE, reset |-> FALSE,
                reason |-> IF Since(lastRepairTime) > currentInterval
                             THEN "sustained" ELSE "",
                store |-> TRUE]

\* a tick that goes on with whatever the failed query left in status
QueryFailedIgnored(res) == FALSE

\* if err != nil { continue }
QueryFailed(res) == res = QueryErr

\* status, err := dm.GetStatus() of a tick returned res, GetIdleTime idle
TickDecide(res, idle) ==
    /\ pollPc = "tick_query"
    /\ IF QueryFailed(res)
         THEN /\ pollPc' = "select"
              /\ UNCHANGED << pendingRepair, consecutiveFails, currentInterval,
                              lastStatus, status, reason, reachedMax >>
         ELSE LET plan == TickPlan(res, IdleSec(idle)) IN
              /\ pendingRepair' = plan.pending
              /\ IF plan.reset
                   THEN ResetRetryState
                   ELSE UNCHANGED << consecutiveFails, currentInterval >>
              /\ reachedMax' = IF res = "OK" THEN FALSE ELSE reachedMax
              /\ IF plan.reason # ""
                   THEN /\ consecutiveFails' < MaxFails
                        /\ pollPc' = "tick_settle"
                        /\ status' = res
                        /\ reason' = plan.reason
                        /\ UNCHANGED lastStatus
                   ELSE /\ pollPc' = "select"
                        /\ lastStatus' = IF plan.store THEN res ELSE lastStatus
                        /\ UNCHANGED << status, reason >>
    /\ UNCHANGED << smVars, dm, lockVars, orchVars, now, cfgVars, pmVars, svcVars, stopChan, pauseChan,
                    lastRepairTime, paused, exceededMaxRetry, recheck,
                    resumeCalls >>

(***************************************************************************)
(* Time.                                                                   *)
(***************************************************************************)
AdvanceClock(limit) ==
    /\ now < limit
    /\ now' = now + 1
    /\ UNCHANGED << smVars, dm, lockVars, orchVars, pollerVars, pmVars, svcVars >>

\* Time goes on past the explored clock values: the origin of the clock is
\* moved instead, which brings lastRepairTime one unit further back.  An
\* elapsed time above both intervals is above every currentInterval, and
\* is kept as it is.
LongestInterval ==
    IF baseRetryInterval > maxRetryInterval
      THEN baseRetryInterval
      ELSE maxRetryInterval

ShiftClock ==
    /\ now = MaxNow
    /\ Since(lastRepairTime) <= LongestInterval
    /\ lastRepairTime' = lastRepairTime - 1
    /\ UNCHANGED << smVars, dm, lockVars, orchVars, now, cfgVars, pmVars, svcVars,
                    stopChan, pauseChan, lastStatus, pendingRepair,
                    consecutiveFails, currentInterval, paused, pollPc, status,
                    reason, exceededMaxRetry, recheck, resumeCalls,
                    reachedMax >>

(***************************************************************************)
(* PowerMonitor.                                                           *)
(***************************************************************************)
DisplayStateOff == 0
DisplayStateDimmed == 1
DisplayStateOn == 2
\* minInterval, seconds
MinInterval == 5
PBT_POWERSETTINGCHANGE == 32787
PBT_APMRESUMESUSPEND == 7
PBT_APMRESUMEAUTOMATIC == 18
PBT_APMOEMEVENT == 10
PBT_APMSUSPEND == 9

\* eventData == 0
NilData == [guid |-> "nil", data |-> 0]
\* eventData pointing to a PowerBroadcastSetting with Data[0] = data
SettingData ==
    [guid : {"CONSOLE_DISPLAY_STATE", "MONITOR_POWER_ON", "SYSTEM_AWAYMODE"},
     data : {DisplayStateOff, DisplayStateDimmed, DisplayStateOn}]
EventTypes ==
    {PBT_APMSUSPEND, PBT_APMRESUMESUSPEND, PBT_APMOEMEVENT,
     PBT_APMRESUMEAUTOMATIC, PBT_POWERSETTINGCHANGE}
NoNotification == [type |-> 0, data |-> NilData, triggered |-> FALSE, ret |-> FALSE]

\* NewPowerMonitor
InitPM ==
    /\ lastDisplayState = DisplayStateOn
    /\ lastResumeTime = ZeroTime
    /\ callbackCalls = 0
    /\ pmPending = 0
    /\ pmLast = NoNotification
    /\ prevTrigger = ZeroTime

\* pbs.PowerSetting == GUID_CONSOLE_DISPLAY_STATE || ... == GUID_MONITOR_POWER_ON
MonitoredSetting(eventType, eventData) ==
    /\ eventType = PBT_POWERSETTINGCHANGE
    /\ eventData # NilData
    /\ eventData.guid \in {"CONSOLE_DISPLAY_STATE", "MONITOR_POWER_ON"}

\* a PowerMonitor for which every step to "on" is a wake-up
DisplayWakeAnyOn(oldState, newState) == newState = DisplayStateOn

\* the display step that is a wake-up
DisplayWake(oldState, newState) ==
    oldState = DisplayStateOff /\ newState = DisplayStateOn

\* HandlePowerBroadcast calls triggerResume
CallsTrigger(eventType, eventData) ==
    IF eventType # PBT_POWERSETTINGCHANGE
      THEN eventType \in {PBT_APMRESUMESUSPEND, PBT_APMRESUMEAUTOMATIC}
      ELSE /\ MonitoredSetting(eventType, eventData)
           /\ DisplayWake(lastDisplayState, eventData.data)

\* a PowerMonitor without debounce
DebouncedNever == FALSE

\* triggerResume: now.Sub(pm.lastResumeTime) < pm.minInterval
Debounced == Since(lastResumeTime) < MinInterval

\* pm.callback() called in the handler: over when the handler returns
CallbackAwaited(running) == running

\* go pm.callback(): one more callback runs when the handler returns
CallbackStarted(running) == running + 1

\* triggerResume; its result is ~Debounced
triggerResume ==
    /\ prevTrigger' = now
    /\ IF Debounced
         THEN UNCHANGED << lastResumeTime, callbackCalls, pmPending >>
         ELSE /\ callbackCalls < MaxCallbacks
              /\ lastResumeTime' = now
              /\ callbackCalls' = callbackCalls + 1
              /\ pmPending' = CallbackStarted(pmPending)

\* a PowerMonitor that forgets a display value whose trigger it debounced
DisplayStateAfterUnlessDebounced(eventType, eventData) ==
    IF /\ MonitoredSetting(eventType, eventData)
       /\ ~(CallsTrigger(eventType, eventData) /\ Debounced)
      THEN eventData.data
      ELSE lastDisplayState

\* pm.lastDisplayState = newState, for a notification on a monitored GUID
DisplayStateAfter(eventType, eventData) ==
    IF MonitoredSetting(eventType, eventData)
      THEN eventData.data
      ELSE lastDisplayState

\* HandlePowerBroadcast (under pm.mu); its result is pmLast'.ret
HandlePowerBroadcast(eventType, eventData) ==
    /\ lastDisplayState' = DisplayStateAfter(eventType, eventData)
    /\ IF CallsTrigger(eventType, eventData)
         THEN triggerResume
         ELSE UNCHANGED << lastResumeTime, callbackCalls, pmPending, prevTrigger >>
    /\ pmLast' = [type |-> eventType, data |-> eventData,
                  triggered |-> CallsTrigger(eventType, eventData),
                  ret |-> CallsTrigger(eventType, eventData) /\ ~Debounced]

\* a notification delivered to the PowerMonitor
Notify(eventType, eventData) ==
    /\ HandlePowerBroadcast(eventType, eventData)
    /\ UNCHANGED << smVars, dm, lockVars, orchVars, now, pollerVars, svcVars >>

\* a callback goroutine of the PowerMonitor ends
CallbackDone ==
    /\ pmPending > 0
    /\ pmPending' = pmPending - 1
    /\ UNCHANGED << smVars, dm, lockVars, orchVars, now, pollerVars, svcVars, lastDisplayState, lastResumeTime,
                    callbackCalls, pmLast, prevTrigger >>

(***************************************************************************)
(* gpdTouchService on a Modern Standby system: Execute starts the poller   *)
(* and installs the PowerMonitor, whose callback calls poller.Resume().    *)
(* Power events reach handlePowerEvent in the thread of Execute's loop.    *)
(* The service never calls poller.Pause().                                 *)
(***************************************************************************)
InitService ==
    /\ checkBeforeReset \in BOOLEAN
    /\ svcPc = "idle"

\* handlePowerEvent up to the settle delay; the PowerMonitor sees eventData 0
SvcPowerEvent(eventType) ==
    /\ svcPc = "idle"
    /\ HandlePowerBroadcast(eventType, NilData)
    /\ IF pmLast'.ret
         THEN svcPc' = "idle" /\ UNCHANGED << paused, pauseChan, recheck >>
         ELSE IF eventType \in {PBT_APMRESUMEAUTOMATIC, PBT_APMRESUMESUSPEND}
           THEN svcPc' = "settle" /\ UNCHANGED << paused, pauseChan, recheck >>
         ELSE IF eventType = PBT_APMOEMEVENT
           THEN svcPc' = "oem_reset" /\ ResumeBody
         ELSE svcPc' = "idle" /\ UNCHANGED << paused, pauseChan, recheck >>
    /\ UNCHANGED << smVars, dm, lockVars, orchVars, now, cfgVars, checkBeforeReset, stopChan, lastStatus,
                    pendingRepair, lastRepairTime, consecutiveFails,
                    currentInterval, pollPc, status, reason, exceededMaxRetry,
                    resumeCalls, reachedMax >>

\* the OEM event: s.poller.ResetRetryState() after s.poller.Resume()
SvcOemReset ==
    /\ svcPc = "oem_reset"
    /\ svcPc' = "idle"
    /\ ResetRetryState
    /\ UNCHANGED << smVars, dm, lockVars, orchVars, now, cfgVars, pmVars, checkBeforeReset, stopChan, pauseChan,
                    lastStatus, pendingRepair, lastRepairTime, paused, pollPc,
                    status, reason, exceededMaxRetry, recheck, resumeCalls,
                    reachedMax >>

\* a handlePowerEvent that never skips
PowerEventSkipsNever(res) == FALSE

\* a handlePowerEvent that also skips when the status query failed
PowerEventSkipsOnError(res) == res = QueryErr \/ EqualFoldOK(res)

\* handlePowerEvent skips the repair on status res after the settle delay
PowerEventSkips(res) == checkBeforeReset /\ res # QueryErr /\ EqualFoldOK(res)

\* handlePowerEvent after the settle delay (res: the status queried when
\* checkBeforeReset is set)
SvcSettle(res) ==
    /\ svcPc = "settle"
    /\ svcPc' = IF PowerEventSkips(res) THEN "idle" ELSE "reset"
    /\ UNCHANGED << smVars, dm, lockVars, orchVars, now, pollerVars, pmVars, checkBeforeReset >>

\* handlePowerEvent: dm.Reset and the verification are over
SvcReset ==
    /\ svcPc = "reset"
    /\ svcPc' = "idle"
    /\ UNCHANGED << smVars, dm, lockVars, orchVars, now, pollerVars, pmVars, checkBeforeReset >>

\* the PowerMonitor's callback in the service: s.poller.Resume()
SvcCallback ==
    /\ pmPending > 0
    /\ pmPending' = pmPending - 1
    /\ ResumeBody
    /\ UNCHANGED << smVars, dm, lockVars, orchVars, now, cfgVars, svcVars, lastDisplayState, lastResumeTime,
                    callbackCalls, pmLast, prevTrigger, stopChan, lastStatus,
                    pendingRepair, lastRepairTime, consecutiveFails,
                    currentInterval, pollPc, status, reason, exceededMaxRetry,
                    resumeCalls, reachedMax >>

\* svc.Stop / svc.Shutdown: s.poller.Stop() and Execute returns
SvcStop ==
    /\ svcPc = "idle"
    /\ svcPc' = "stopped"
    /\ stopChan' = TRUE
    /\ UNCHANGED << smVars, dm, lockVars, orchVars, now, cfgVars, pmVars, checkBeforeReset, pauseChan,
                    lastStatus, pendingRepair, lastRepairTime, consecutiveFails,
                    currentInterval, paused, pollPc, status, reason,
                    exceededMaxRetry, recheck, resumeCalls, reachedMax >>

(***************************************************************************)
(* gpdTouchService: one run of the repair orchestrator, step by step.      *)
(* handlePowerEvent (path "power") and handlePolledWake (path "polled")    *)
(* with the calls they make to the statistics, the notifier and the        *)
(* device.  dm.Reset's own two status queries are only logged by Reset and *)
(* never reach the orchestrator; they are not part of orch.seen.           *)
(***************************************************************************)
\* runs of the orchestrator in one behaviour
MaxAttempts == 2

\* no status queried yet in this run
NotSeen == "<none>"
\* the run has not returned / returns nothing (handlePowerEvent)
NoReturn == "<none>"
\* no call of NotifyResumeResult yet
NoNotify == [fixed |-> FALSE, skipped |-> FALSE, err |-> FALSE]

\* DefaultConfig: LogAllEvents is true
DefaultLogAllEvents == TRUE

InitOrch ==
    /\ logAllEvents \in BOOLEAN
    /\ orch = [pc |-> "idle", path |-> "none", seen |-> NotSeen,
               ret |-> NoReturn, record |-> "none", notified |-> FALSE]
    /\ stats = [resumes |-> 0, skips |-> 0, resetsOk |-> 0, resetsFailed |-> 0]
    /\ notifier = [calls |-> 0, last |-> NoNotify]
    /\ devCalls = [disable |-> 0, enable |-> 0]

\* s.stats.RecordSkip()
RecordSkip == [stats EXCEPT !.skips = @ + 1]
\* s.stats.RecordReset(success, text)
RecordReset(success) ==
    IF success THEN [stats EXCEPT !.resetsOk = @ + 1]
               ELSE [stats EXCEPT !.resetsFailed = @ + 1]
\* s.notifier.NotifyResumeResult(fixed, skipped, deviceName, err)
NotifyResumeResult(fixed, skipped, err) ==
    [calls |-> notifier.calls + 1,
     last |-> [fixed |-> fixed, skipped |-> skipped, err |-> err]]

\* the value a run returns: handlePolledWake's bool, nothing for
\* handlePowerEvent
Returns(path, value) ==
    IF path = "polled" THEN (IF value THEN "true" ELSE "false") ELSE NoReturn

\* the run starts: RecordResume, then the settle delay
OrchTrigger(path) ==
    /\ orch.pc = "idle"
    /\ stats.resumes < MaxAttempts
    /\ orch' = [pc |-> "settle", path |-> path, seen |-> NotSeen,
                ret |-> NoReturn, record |-> "none", notified |-> FALSE]
    /\ stats' = [stats EXCEPT !.resumes = @ + 1]
    /\ UNCHANGED << smVars, dm, lockVars, now, pollerVars, pmVars, svcVars, logAllEvents, notifier,
                    devCalls >>

\* the run queries the status after the settle delay
OrchQueries == orch.path = "polled" \/ checkBeforeReset

\* after the settle delay: the status check (res: what GetStatus returns if
\* the run queries) and the skip
OrchCheck(res) ==
    /\ orch.pc = "settle"
    /\ IF ~OrchQueries
         THEN /\ orch' = [orch EXCEPT !.pc = "reset"]
              /\ UNCHANGED << stats, notifier >>
         ELSE IF (IF orch.path = "polled" THEN PolledWakeSkips(res)
                                           ELSE PowerEventSkips(res))
           THEN /\ stats' = RecordSkip
                /\ notifier' = IF orch.path = "power" /\ logAllEvents
                                 THEN NotifyResumeResult(FALSE, TRUE, FALSE)
                                 ELSE notifier
                /\ orch' = [orch EXCEPT !.pc = "idle", !.seen = res,
                                         !.ret = Returns(orch.path, TRUE),
                                         !.record = "skip",
                                         !.notified = (orch.path = "power" /\ logAllEvents)]
           ELSE /\ orch' = [orch EXCEPT !.pc = "reset", !.seen = res]
                /\ UNCHANGED << stats, notifier >>
    /\ UNCHANGED << smVars, dm, lockVars, now, pollerVars, pmVars, svcVars, logAllEvents, devCalls >>

\* dm.Reset(waitDuration): Disable, sleep, Enable; the first error ends it
OrchReset(disableOk, enableOk) ==
    /\ orch.pc = "reset"
    /\ devCalls' = [disable |-> devCalls.disable + 1,
                    enable |-> devCalls.enable + (IF disableOk THEN 1 ELSE 0)]
    /\ IF disableOk /\ enableOk
         THEN /\ orch' = [orch EXCEPT !.pc = "verify"]
              /\ UNCHANGED << stats, notifier >>
         ELSE /\ stats' = RecordReset(FALSE)
              /\ notifier' = NotifyResumeResult(FALSE, FALSE, TRUE)
              /\ orch' = [orch EXCEPT !.pc = "idle",
                                       !.ret = Returns(orch.path, FALSE),
                                       !.record = "reset_failed",
                                       !.notified = TRUE]
    /\ UNCHANGED << smVars, dm, lockVars, now, pollerVars, pmVars, svcVars, logAllEvents >>

\* finalStatus, err := dm.GetStatus() and the classification of the run
OrchVerify(res) ==
    /\ orch.pc = "verify"
    /\ IF res = QueryErr
         THEN /\ stats' = RecordReset(FALSE)
              /\ UNCHANGED notifier
              /\ orch' = [orch EXCEPT !.pc = "idle", !.seen = res,
                                       !.ret = Returns(orch.path, FALSE),
                                       !.record = "reset_failed"]
         ELSE /\ stats' = RecordReset(EqualFoldOK(res))
              /\ notifier' = NotifyResumeResult(EqualFoldOK(res), FALSE,
                                                ~EqualFoldOK(res))
              /\ orch' = [orch EXCEPT !.pc = "idle", !.seen = res,
                                       !.ret = Returns(orch.path, EqualFoldOK(res)),
                                       !.record = IF EqualFoldOK(res)
                                                    THEN "reset_ok"
                                                    ELSE "reset_failed",
                                       !.notified = TRUE]
    /\ UNCHANGED << smVars, dm, lockVars, now, pollerVars, pmVars, svcVars, logAllEvents, devCalls >>

(***************************************************************************)
(* WakeEventPoller.mu.  The statements of each flow that lock or unlock    *)
(* p.mu, read or write a field of the poller, or block (a status query, a  *)
(* sleep, the repair callback), in the order of the source.                *)
(***************************************************************************)
Lock == [op |-> "lock", field |-> ""]
Unlock == [op |-> "unlock", field |-> ""]
Read(field) == [op |-> "read", field |-> field]
Write(field) == [op |-> "write", field |-> field]
Block(what) == [op |-> "block", field |-> what]
Go == [op |-> "go", field |-> ""]

\* Pause()
PauseCode ==
    << Lock, Read("paused"), Write("paused"), Unlock >>

\* Resume() on a paused poller with pendingRepair set
ResumeCode ==
    << Lock, Read("paused"), Write("paused"), Read("pendingRepair"), Go, Unlock >>

\* IsPaused(), ResetRetryState(), getCurrentInterval(), incrementFails()
IsPausedCode == << Lock, Read("paused"), Unlock >>
ResetRetryStateCode ==
    << Lock, Write("consecutiveFails"), Write("currentInterval"), Unlock >>
getCurrentIntervalCode == << Lock, Read("currentInterval"), Unlock >>
incrementFailsCode ==
    << Lock, Write("consecutiveFails"), Write("currentInterval"), Unlock >>

\* a goroutine that holds p.mu from its sleep to its end
RecheckCodeLocked ==
    << Lock, Block("sleep"), Block("GetStatus"), Block("callback"),
       Write("pendingRepair"), Unlock >>

\* the goroutine of Resume(): status still in error, callback successful
RecheckCode ==
    << Block("sleep"), Block("GetStatus"), Block("callback"),
       Write("pendingRepair") >> \o ResetRetryStateCode

\* poll(): a tick that repairs after a wake-up (status and lastStatus in
\* error, pendingRepair set, system active) and whose callback fails
PollCode ==
    IsPausedCode
    \o << Block("GetStatus"), Read("lastStatus"), Read("pendingRepair"),
          Write("pendingRepair") >>
    \o ResetRetryStateCode
    \o getCurrentIntervalCode
    \o << Read("lastRepairTime"), Block("callback"), Write("lastRepairTime") >>
    \o incrementFailsCode
    \o << Write("lastStatus") >>

Flows == {"pause", "resume", "poll", "recheck"}

Code(f) ==
    CASE f = "pause" -> PauseCode
      [] f = "resume" -> ResumeCode
      [] f = "poll" -> PollCode
      [] f = "recheck" -> RecheckCode

\* the goroutine of Resume() does not exist before the go statement
InitLock ==
    /\ mu = "free"
    /\ lockPc = [f \in Flows |-> IF f = "recheck" THEN 0 ELSE 1]

\* the statement flow f is at, NoStatement when it has none
NoStatement == [op |-> "none", field |-> ""]
NextStatement(f) ==
    IF lockPc[f] \in 1..Len(Code(f)) THEN Code(f)[lockPc[f]] ELSE NoStatement

\* p.mu.Lock()
Acquire(f) ==
    /\ NextStatement(f).op = "lock"
    /\ mu = "free"
    /\ mu' = f
    /\ lockPc' = [lockPc EXCEPT ![f] = @ + 1]
    /\ UNCHANGED << smVars, dm, now, pollerVars, pmVars, svcVars, orchVars >>

\* p.mu.Unlock()  (deferred: at the end of the method)
Release(f) ==
    /\ NextStatement(f).op = "unlock"
    /\ mu' = "free"
    /\ lockPc' = [lockPc EXCEPT ![f] = @ + 1]
    /\ UNCHANGED << smVars, dm, now, pollerVars, pmVars, svcVars, orchVars >>

\* a read or a write of a field, or a blocking call
Statement(f) ==
    /\ NextStatement(f).op \in {"read", "write", "block"}
    /\ lockPc' = [lockPc EXCEPT ![f] = @ + 1]
    /\ UNCHANGED << smVars, dm, mu, now, pollerVars, pmVars, svcVars, orchVars >>

\* go func() { ... }()  in Resume()
Spawn(f) ==
    /\ NextStatement(f).op = "go"
    /\ lockPc' = [lockPc EXCEPT ![f] = @ + 1, !["recheck"] = 1]
    /\ UNCHANGED << smVars, dm, mu, now, pollerVars, pmVars, svcVars, orchVars >>

(***************************************************************************)
(* DeviceManager.  One call of Reset, statement by statement: the status   *)
(* query that is only logged, Disable, the sleep, Enable, the second       *)
(* status query that is only logged, and the error returned.               *)
(***************************************************************************)
MaxResets == 3

\* What runPowerShell gives back: success, or an error whose text holds
\* "0x80041001", holds the localized "general failure" message, or neither
PsOk == "ok"
PsResults == { PsOk, "0x80041001", "general_failure", "failed" }

NilErr == "nil"
ErrDisableNeedsAdmin == "disable_failed_needs_admin"
ErrDisable == "disable_failed"
ErrEnable == "enable_failed"

\* Disable's error: the privilege failure has a message of its own
Disable(out) ==
    IF out = PsOk
      THEN NilErr
      ELSE IF out \in { "0x80041001", "general_failure" }
             THEN ErrDisableNeedsAdmin
             ELSE ErrDisable

Enable(out) ==
    IF out = PsOk THEN NilErr ELSE ErrEnable

InitDevice ==
    dm = [pc |-> "idle", n |-> 0, calls |-> << >>, initial |-> NotSeen,
          disable |-> NotSeen, enable |-> NotSeen, final |-> NotSeen,
          err |-> NoReturn]

\* The error Reset returns, from what PowerShell gave to Disable and Enable
ResetErr(disableOut, enableOut) ==
    IF Disable(disableOut) # NilErr
      THEN Disable(disableOut)
      ELSE Enable(enableOut)

\* dm.Reset(waitDuration) is called
ResetCall ==
    /\ dm.pc \in { "idle", "done" }
    /\ dm.n < MaxResets
    /\ dm' = [pc |-> "initial_status", n |-> dm.n + 1, calls |-> << >>,
              initial |-> NotSeen, disable |-> NotSeen, enable |-> NotSeen,
              final |-> NotSeen, err |-> NoReturn]
    /\ UNCHANGED << smVars, now, pollerVars, pmVars, svcVars, orchVars, lockVars >>

\* initialStatus, err := dm.GetStatus(): logged either way
ResetInitialStatus(res) ==
    /\ dm.pc = "initial_status"
    /\ dm' = [dm EXCEPT !.pc = "disable",
                        !.calls = Append(@, "GetStatus"),
                        !.initial = res]
    /\ UNCHANGED << smVars, now, pollerVars, pmVars, svcVars, orchVars, lockVars >>

\* if err := dm.Disable(); err != nil { return err }
AfterDisableGoesOn(err) == "wait"

AfterDisable(err) ==
    IF err = NilErr THEN "wait" ELSE "done"

ResetDisable(out) ==
    /\ dm.pc = "disable"
    /\ dm' = [dm EXCEPT !.pc = AfterDisable(Disable(out)),
                        !.calls = Append(@, "Disable"),
                        !.disable = Disable(out),
                        !.err = IF Disable(out) = NilErr THEN @ ELSE Disable(out)]
    /\ UNCHANGED << smVars, now, pollerVars, pmVars, svcVars, orchVars, lockVars >>

\* time.Sleep(waitDuration)
ResetWait ==
    /\ dm.pc = "wait"
    /\ dm' = [dm EXCEPT !.pc = "enable", !.calls = Append(@, "Sleep")]
    /\ UNCHANGED << smVars, now, pollerVars, pmVars, svcVars, orchVars, lockVars >>

\* if err := dm.Enable(); err != nil { return err }
ResetEnable(out) ==
    /\ dm.pc = "enable"
    /\ dm' = [dm EXCEPT !.pc = IF Enable(out) = NilErr THEN "final_status" ELSE "done",
                        !.calls = Append(@, "Enable"),
                        !.enable = Enable(out),
                        !.err = IF Enable(out) = NilErr THEN @ ELSE Enable(out)]
    /\ UNCHANGED << smVars, now, pollerVars, pmVars, svcVars, orchVars, lockVars >>

\* finalStatus, err := dm.GetStatus(): logged either way, then  return nil
AfterFinalStatusVerified(res) ==
    IF res = "OK" THEN NilErr ELSE ErrEnable

AfterFinalStatus(res) == NilErr

ResetFinalStatus(res) ==
    /\ dm.pc = "final_status"
    /\ dm' = [dm EXCEPT !.pc = "done",
                        !.calls = Append(@, "GetStatus"),
                        !.final = res,
                        !.err = AfterFinalStatus(res)]
    /\ UNCHANGED << smVars, now, pollerVars, pmVars, svcVars, orchVars, lockVars >>

(***************************************************************************)
(* StatsManager.  sm.stats with every counter, the date logic of           *)
(* checkDateRollover, and stats.json as save() writes it.  A date is the   *)
(* day with the year, the month and the ISO week it lies in; the date      *)
(* text stored in LastStatDate stands for its day.                         *)
(***************************************************************************)
MaxRecords == 3
MaxDays == 1

\* values that are no day: an empty LastStatDate, one that time.Parse
\* rejects, and a nil *time.Time
NoDate == [year |-> 0, month |-> 0, week |-> 0, day |-> -1]
BadDate == [year |-> 0, month |-> 0, week |-> 0, day |-> -2]
NoTime == [year |-> 0, month |-> 0, week |-> 0, day |-> -3]
\* os.IsNotExist: there is no stats.json
NoFile == [exists |-> FALSE]
\* "状态正常，已跳过"
SkipText == "status OK, skipped"
ResultTexts == { "repaired", "failed" }

FirstDay == [year |-> 1, month |-> 1, week |-> 1, day |-> 0]

\* &Stats{LastStatDate: today}
NewStats(lastStatDate) ==
    [TotalResumeEvents |-> 0, TotalResets |-> 0, TotalSkips |-> 0,
     TotalFailures |-> 0,
     TodayResets |-> 0, TodaySkips |-> 0, TodayFailures |-> 0,
     WeekResets |-> 0, WeekSkips |-> 0, WeekFailures |-> 0,
     MonthResets |-> 0, MonthSkips |-> 0, MonthFailures |-> 0,
     LastResetTime |-> NoTime, LastResumeTime |-> NoTime,
     LastEventTime |-> NoTime, LastResetResult |-> "",
     LastStatDate |-> lastStatDate]

\* NewStatsManager in a directory without stats.json
InitStats ==
    /\ today = FirstDay
    /\ sm = NewStats(FirstDay)
    /\ statsFile = NoFile

\* a StatsManager for which every call is the first of a new day
NewDayAlways(s) == TRUE

\* today != sm.stats.LastStatDate
NewDay(s) == today # s.LastStatDate

\* checkDateRollover, as the record it leaves in sm.stats
checkDateRollover(s) ==
    IF s.LastStatDate \in { NoDate, BadDate }
      THEN [s EXCEPT !.LastStatDate = today]
    ELSE IF NewDay(s)
      THEN LET newWeek == \/ s.LastStatDate.week # today.week
                          \/ s.LastStatDate.year # today.year
               newMonth == \/ s.LastStatDate.month # today.month
                           \/ s.LastStatDate.year # today.year
           IN [s EXCEPT
                 !.TodayResets = 0, !.TodaySkips = 0, !.TodayFailures = 0,
                 !.WeekResets = IF newWeek THEN 0 ELSE @,
                 !.WeekSkips = IF newWeek THEN 0 ELSE @,
                 !.WeekFailures = IF newWeek THEN 0 ELSE @,
                 !.MonthResets = IF newMonth THEN 0 ELSE @,
                 !.MonthSkips = IF newMonth THEN 0 ELSE @,
                 !.MonthFailures = IF newMonth THEN 0 ELSE @,
                 !.LastStatDate = today]
    ELSE s

\* the calls recorded so far
Recorded ==
    sm.TotalResumeEvents + sm.TotalResets + sm.TotalSkips + sm.TotalFailures

\* RecordResume
StatsRecordResume ==
    /\ Recorded < MaxRecords
    /\ sm' = [checkDateRollover(sm) EXCEPT
                !.TotalResumeEvents = @ + 1,
                !.LastResumeTime = today]
    /\ statsFile' = sm'
    /\ UNCHANGED << today, dm, now, pollerVars, pmVars, svcVars, orchVars,
                    lockVars >>

\* RecordReset(success, result)
StatsRecordReset(success, result) ==
    /\ Recorded < MaxRecords
    /\ sm' = IF success
               THEN [checkDateRollover(sm) EXCEPT
                       !.LastResetTime = today,
                       !.LastEventTime = today,
                       !.LastResetResult = result,
                       !.TotalResets = @ + 1,
                       !.TodayResets = @ + 1,
                       !.WeekResets = @ + 1,
                       !.MonthResets = @ + 1]
               ELSE [checkDateRollover(sm) EXCEPT
                       !.LastResetTime = today,
                       !.LastEventTime = today,
                       !.LastResetResult = result,
                       !.TotalFailures = @ + 1,
                       !.TodayFailures = @ + 1,
                       !.WeekFailures = @ + 1,
                       !.MonthFailures = @ + 1]
    /\ statsFile' = sm'
    /\ UNCHANGED << today, dm, now, pollerVars, pmVars, svcVars, orchVars,
                    lockVars >>

\* RecordSkip
StatsRecordSkip ==
    /\ Recorded < MaxRecords
    /\ sm' = [checkDateRollover(sm) EXCEPT
                !.LastEventTime = today,
                !.LastResetResult = SkipText,
                !.TotalSkips = @ + 1,
                !.TodaySkips = @ + 1,
                !.WeekSkips = @ + 1,
                !.MonthSkips = @ + 1]
    /\ statsFile' = sm'
    /\ UNCHANGED << today, dm, now, pollerVars, pmVars, svcVars, orchVars,
                    lockVars >>

\* NewStatsManager after a restart: load() reads stats.json, whose
\* last_stat_date is as saved, missing or damaged, and checks the date
StatsLoad(lastStatDate) ==
    /\ sm' = IF statsFile = NoFile
               THEN NewStats(today)
               ELSE checkDateRollover([statsFile EXCEPT
                                         !.LastStatDate = lastStatDate])
    /\ UNCHANGED << today, statsFile, dm, now, pollerVars, pmVars, svcVars,
                    orchVars, lockVars >>

\* GetStats: checkDateRollover and a copy of the record (nothing is saved)
GetStats ==
    /\ sm' = checkDateRollover(sm)
    /\ UNCHANGED << today, statsFile, dm, now, pollerVars, pmVars, svcVars,
                    orchVars, lockVars >>

\* midnight: the next day, which may begin a week, a month or a year
NextDay(newWeek, newMonth, newYear) ==
    /\ today.day < MaxDays
    /\ today' = [year |-> IF newYear THEN today.year + 1 ELSE today.year,
                 month |-> IF newYear THEN 1
                           ELSE IF newMonth THEN today.month + 1
                           ELSE today.month,
                 week |-> IF newYear /\ newWeek THEN 1
                          ELSE IF newWeek THEN today.week + 1
                          ELSE today.week,
                 day |-> today.day + 1]
    /\ UNCHANGED << sm, statsFile, dm, now, pollerVars, pmVars, svcVars,
                    orchVars, lockVars >>

(***************************************************************************)
(* Specifications.                                                         *)
(***************************************************************************)
PollLoop ==
    \/ \E res \in StatusResults : PollStartup(res)
    \/ \E res \in StatusResults : PollSettle(res)
    \/ \E resetOk \in BOOLEAN, res \in StatusResults : PollReset(resetOk, res)
    \/ PollStop
    \/ PollRecvPause
    \/ TickBegin
    \/ \E res \in StatusResults : ExceededTick(res)
    \/ \E res \in StatusResults, idle \in IdleResults : TickDecide(res, idle)

Rechecks ==
    \/ \E i \in 1..MaxRecheck, res \in StatusResults : RecheckQuery(i, res)
    \/ \E i \in 1..MaxRecheck, res \in StatusResults : RecheckSettle(i, res)
    \/ \E i \in 1..MaxRecheck, resetOk \in BOOLEAN, res \in StatusResults :
          RecheckReset(i, resetOk, res)

\* DefaultConfig: CheckBeforeReset is true
DefaultCheckBeforeReset == TRUE

\* ---- Spec: the poller, driven through its exported methods
Init ==
    /\ InitPoller
    /\ InitPM
    /\ InitService
    /\ InitOrch
    /\ InitLock
    /\ InitDevice
    /\ InitStats
    /\ checkBeforeReset = DefaultCheckBeforeReset
    /\ logAllEvents = DefaultLogAllEvents

Next ==
    \/ Pause
    \/ Resume
    \/ Stop
    \/ ResetRetryStateCall
    \/ PollLoop
    \/ Rechecks
    \/ AdvanceClock(MaxNow)

Spec == Init /\ [][Next]_vars

\* ---- FairSpec: Spec with the scheduler's fairness: a goroutine that can
\* take a step is eventually run, and the ticker keeps firing
FairSpec == Spec /\ WF_vars(PollLoop) /\ WF_vars(Rechecks)

\* ---- SpecCalls: Spec with every call of Resume() counted
InitOne ==
    /\ Init
    /\ maxRetryCount = 1

NextCalls ==
    \/ Pause
    \/ ResumeCall
    \/ Stop
    \/ ResetRetryStateCall
    \/ PollLoop
    \/ Rechecks
    \/ AdvanceClock(MaxNow)

SpecCalls == InitOne /\ [][NextCalls]_vars

\* ---- SpecPM: the PowerMonitor and the notifications delivered to it
Notifications ==
    { <<t, NilData>> : t \in EventTypes } \cup
    { <<PBT_POWERSETTINGCHANGE, d>> : d \in SettingData }

NextPM ==
    \/ \E n \in Notifications : Notify(n[1], n[2])
    \/ CallbackDone
    \/ AdvanceClock(MaxPMNow)

SpecPM == InitOne /\ [][NextPM]_vars

\* ---- SpecService: the service on a Modern Standby system
InitSvc ==
    /\ InitPoller
    /\ InitPM
    /\ InitService
    /\ InitOrch
    /\ InitLock
    /\ InitDevice
    /\ InitStats
    /\ logAllEvents = DefaultLogAllEvents
    /\ maxRetryCount = 1

NextSvc ==
    \/ \E res \in StatusResults : PollStartup(res)
    \/ \E res \in StatusResults : PollSettle(res)
    \/ \E resetOk \in BOOLEAN, res \in StatusResults : PollReset(resetOk, res)
    \/ PollStop
    \/ TickBegin
    \/ \E res \in StatusResults : ExceededTick(res)
    \/ \E res \in StatusResults, idle \in IdleResults : TickDecide(res, idle)
    \/ \E t \in EventTypes : SvcPowerEvent(t)
    \/ SvcOemReset
    \/ \E res \in StatusResults : SvcSettle(res)
    \/ SvcReset
    \/ SvcCallback
    \/ SvcStop
    \/ AdvanceClock(MaxNow)

SpecService == InitSvc /\ [][NextSvc]_vars

\* ---- SpecOrch: runs of the orchestrator on either path, under every
\* configuration of CheckBeforeReset and LogAllEvents
InitOrchOnly ==
    /\ InitPoller
    /\ InitPM
    /\ InitService
    /\ InitOrch
    /\ InitLock
    /\ InitDevice
    /\ InitStats
    /\ maxRetryCount = 1

NextOrch ==
    \/ \E path \in {"power", "polled"} : OrchTrigger(path)
    \/ \E res \in StatusResults : OrchCheck(res)
    \/ \E disableOk \in BOOLEAN, enableOk \in BOOLEAN : OrchReset(disableOk, enableOk)
    \/ \E res \in StatusResults : OrchVerify(res)

SpecOrch == InitOrchOnly /\ [][NextOrch]_vars

\* ---- SpecLock: the flows of the poller around p.mu
NextLock ==
    \/ \E f \in Flows : Acquire(f)
    \/ \E f \in Flows : Release(f)
    \/ \E f \in Flows : Statement(f)
    \/ \E f \in Flows : Spawn(f)

SpecLock == InitOne /\ [][NextLock]_vars

\* ---- SpecReset: calls of DeviceManager.Reset under every outcome of the
\* PowerShell commands
NextReset ==
    \/ ResetCall
    \/ \E res \in StatusResults : ResetInitialStatus(res)
    \/ \E out \in PsResults : ResetDisable(out)
    \/ ResetWait
    \/ \E out \in PsResults : ResetEnable(out)
    \/ \E res \in StatusResults : ResetFinalStatus(res)

SpecReset == InitOne /\ [][NextReset]_vars

\* ---- SpecRetry: the poll loop with unlimited retries, never paused or
\* stopped, on a device that every tick finds in an error status while the
\* user is active.  The poll goroutine is scheduled, its ticker fires and
\* its callback returns (every PowerShell command has a timeout); time
\* goes on.
InitRetry ==
    /\ Init
    /\ maxRetryCount = 0

ActiveIdle == { idle \in IdleMsSet : IdleSec(idle) <= ActiveIdleSec }

PollRetry ==
    \/ \E res \in StatusResults : PollStartup(res)
    \/ \E res \in StatusResults : PollSettle(res)
    \/ \E resetOk \in BOOLEAN, res \in StatusResults : PollReset(resetOk, res)
    \/ TickBegin
    \/ \E res \in StatusSet \ {"OK"}, idle \in ActiveIdle : TickDecide(res, idle)

Clock ==
    \/ AdvanceClock(MaxNow)
    \/ ShiftClock

NextRetry ==
    \/ PollRetry
    \/ Clock

SpecRetry ==
    /\ InitRetry
    /\ [][NextRetry]_vars
    /\ WF_vars(PollRetry)
    /\ WF_vars(Clock)

\* ---- SpecStats: calls of the StatsManager over a few days
NextStats ==
    \/ StatsRecordResume
    \/ \E success \in BOOLEAN, result \in ResultTexts :
          StatsRecordReset(success, result)
    \/ StatsRecordSkip
    \/ GetStats
    \/ \E d \in { NoDate, BadDate } \cup
                (IF statsFile = NoFile THEN {} ELSE { statsFile.LastStatDate }) :
          StatsLoad(d)
    \/ \E newWeek \in BOOLEAN, newMonth \in BOOLEAN, newYear \in BOOLEAN :
          NextDay(newWeek, newMonth, newYear)

SpecStats == InitOne /\ [][NextStats]_vars

(***************************************************************************)
(* Steps and states the properties below speak about.                      *)
(***************************************************************************)
\* the step invokes the repair callback from the poll goroutine
PollInvokes ==
    /\ pollPc \in {"init", "tick_query"}
    /\ pollPc' \in {"start_settle", "tick_settle"}

\* the step invokes the repair callback from a goroutine started by Resume()
RecheckInvokes ==
    \E i \in 1..MaxRecheck : recheck[i] = "sleep" /\ recheck'[i] = "settle"

\* the step starts a status query of a tick
TickQueryStarts ==
    /\ pollPc = "select"
    /\ pollPc' \in {"tick_query", "exceeded_query"}

\* the flows that are inside a Disable/Enable cycle
ResetsInFlight ==
    (IF pollPc \in {"start_reset", "tick_reset"} THEN {"poll"} ELSE {})
    \cup { i \in 1..MaxRecheck : recheck[i] = "reset" }
    \cup (IF svcPc = "reset" THEN {"service"} ELSE {})

(***************************************************************************)
(* C1.  Once consecutiveFails has reached maxRetryCount (> 0), the poller  *)
(* invokes no repair callback (from a tick, from startup, from the         *)
(* Resume() recheck) until a tick observes status OK.                      *)
(* Fails on the code: the startup repair ignores incrementFails' result,   *)
(* and the Resume() recheck never looks at the retry state.                *)
(***************************************************************************)
C1_NoRepairOnceExhausted ==
    [][reachedMax => ~(PollInvokes \/ RecheckInvokes)]_vars

(***************************************************************************)
(* C2.  In every reachable state of the poller                             *)
(*      baseRetryInterval <= currentInterval <= maxRetryInterval.          *)
(* Fails on the code: the constructor stores a base interval above the     *)
(* maximum as it is, and currentInterval starts at the base interval.      *)
(***************************************************************************)
C2_IntervalInRange ==
    /\ baseRetryInterval <= currentInterval
    /\ currentInterval <= maxRetryInterval

(***************************************************************************)
(* C3.  At most one Disable/Enable cycle is in flight at any time, over    *)
(* the power-event handler, the poller's callback and the Resume()         *)
(* recheck.                                                                *)
(* Fails on the code: nothing serializes the flows.                        *)
(***************************************************************************)
C3_AtMostOneRepair == Cardinality(ResetsInFlight) <= 1

(***************************************************************************)
(* C4.  A Pause/Resume transition is never lost: once the poller is not    *)
(* paused (and not stopped), the poll loop eventually starts a tick's      *)
(* status query, unless it is paused or stopped again first.               *)
(* Fails on the code: the inner loop never ends on a resume signal, and a  *)
(* resume signal that finds the buffer full is dropped.                    *)
(***************************************************************************)
C4_ResumeNotLost ==
    (~paused /\ ~stopChan)
        ~> (pollPc \in {"init", "tick_query", "exceeded_query"} \/ paused \/ stopChan)

(***************************************************************************)
(* C5.  While the poller is paused, a timer tick taken by the poll loop    *)
(* starts no status query and no repair callback: from its select, the     *)
(* loop only goes to the pause handling or to its end.                     *)
(***************************************************************************)
C5_PausedTicksIdle ==
    [][(paused /\ pollPc \in {"select", "paused_wait"})
          => (~TickQueryStarts /\ ~PollInvokes
              /\ pollPc' \in {"select", "paused_wait", "done"})]_vars

\* the poll loop is at its select while the poller is paused, and a tick
\* has been handled before
C5_Witness ==
    /\ paused
    /\ pollPc = "select"
    /\ lastStatus = "Error"
    /\ pendingRepair

(***************************************************************************)
(* C6 as stated.  Every call of Resume() made while pendingRepair is true  *)
(* starts the deferred recheck.                                            *)
(* Fails on the code: Resume() does nothing unless the poller is paused.   *)
(***************************************************************************)
C6_EveryResumeRechecks ==
    [][(resumeCalls' # resumeCalls /\ pendingRepair)
          => \E i \in 1..MaxRecheck : recheck[i] = "idle" /\ recheck'[i] = "sleep"]_vars

(***************************************************************************)
(* C6, amended.  A call of Resume() starts a recheck exactly when the      *)
(* poller is paused and pendingRepair is true, and then starts one.  The   *)
(* recheck queries the status once: on OK it clears pendingRepair and      *)
(* ends without a callback; on a failed query it ends and leaves           *)
(* pendingRepair; on an error status it invokes the callback once, and     *)
(* clears pendingRepair exactly when the callback reports success.         *)
(***************************************************************************)
C6_ResumeRecheck ==
    [][/\ (resumeCalls' # resumeCalls) =>
            /\ (paused /\ pendingRepair) <=>
                   \E i \in 1..MaxRecheck : recheck[i] = "idle" /\ recheck'[i] = "sleep"
            /\ Cardinality({ i \in 1..MaxRecheck : recheck'[i] # recheck[i] }) <= 1
       /\ \A i \in 1..MaxRecheck :
            /\ recheck[i] = "sleep" => recheck'[i] \in {"sleep", "settle", "idle"}
            /\ recheck[i] = "settle" => recheck'[i] \in {"settle", "reset", "idle"}
            /\ recheck[i] = "reset" => recheck'[i] \in {"reset", "idle"}
       /\ \A i \in 1..MaxRecheck, res \in StatusResults :
            RecheckQuery(i, res) =>
              /\ res = "OK" => (~pendingRepair' /\ recheck'[i] = "idle")
              /\ res = QueryErr =>
                    (pendingRepair' = pendingRepair /\ recheck'[i] = "idle")
              /\ res \notin {"OK", QueryErr} =>
                    (pendingRepair' = pendingRepair /\ recheck'[i] = "settle")
       /\ \A i \in 1..MaxRecheck, res \in StatusResults :
            RecheckSettle(i, res) =>
              IF res # QueryErr /\ EqualFoldOK(res)
                THEN ~pendingRepair' /\ recheck'[i] = "idle"
                ELSE pendingRepair' = pendingRepair /\ recheck'[i] = "reset"
       /\ \A i \in 1..MaxRecheck, resetOk \in BOOLEAN, res \in StatusResults :
            RecheckReset(i, resetOk, res) =>
              IF resetOk /\ res # QueryErr /\ EqualFoldOK(res)
                THEN ~pendingRepair'
                ELSE pendingRepair' = pendingRepair
      ]_vars

\* a recheck started by a counted Resume() is inside its callback's Reset,
\* pendingRepair still set
C6_Witness ==
    /\ resumeCalls = 1
    /\ pendingRepair
    /\ \E i \in 1..MaxRecheck : recheck[i] = "reset"

(***************************************************************************)
(* C7.  A tick (not paused, retries not exhausted) that finds an error     *)
(* status after lastStatus OK, with the idle time unknown or at least      *)
(* 300 s, sets pendingRepair, stores the status in lastStatus and ends     *)
(* without invoking the callback.                                          *)
(***************************************************************************)
C7_DeferredRepair ==
    [][\A res \in StatusSet \ {"OK"}, idle \in IdleResults :
          ( /\ TickDecide(res, idle)
            /\ lastStatus = "OK"
            /\ (idle = IdleErr \/ idle >= 300 * 1000) )
          => ( /\ pendingRepair'
               /\ lastStatus' = res
               /\ pollPc' = "select"
               /\ ~PollInvokes )]_vars

\* a tick has deferred the repair: pendingRepair is set, the error status
\* stored, the loop back at its select
C7_Witness ==
    /\ pollPc = "select"
    /\ pendingRepair
    /\ lastStatus \in StatusSet \ {"OK"}
    /\ lastRepairTime = ZeroTime

(***************************************************************************)
(* C8.  A tick (not paused, retries not exhausted) that finds an error     *)
(* status after lastStatus OK, with a known idle time below 300 s,         *)
(* invokes the callback, once, whatever lastRepairTime and currentInterval *)
(* are, and pendingRepair is false from the invocation to the end of the   *)
(* tick.                                                                   *)
(***************************************************************************)
C8_ImmediateRepair ==
    [][/\ \A res \in StatusSet \ {"OK"}, idle \in IdleMsSet :
            ( /\ TickDecide(res, idle)
              /\ lastStatus = "OK"
              /\ idle < 300 * 1000 )
            => ( /\ PollInvokes
                 /\ pollPc' = "tick_settle"
                 /\ ~pendingRepair' )
       /\ pollPc \in {"tick_settle", "tick_reset"} =>
            /\ ~pendingRepair /\ ~pendingRepair'
            /\ pollPc' \in {pollPc, "tick_reset", "select"}
            /\ ~PollInvokes
      ]_vars

\* the callback of a tick runs for a change of status although the last
\* repair is more recent than the current interval
C8_Witness ==
    /\ pollPc = "tick_settle"
    /\ reason = "status_change"
    /\ lastRepairTime # ZeroTime
    /\ Since(lastRepairTime) <= currentInterval

\* a step in which HandlePowerBroadcast calls triggerResume
TriggerStep ==
    /\ \E n \in Notifications : Notify(n[1], n[2])
    /\ pmLast'.triggered

(***************************************************************************)
(* C9 as stated.  Of two resume triggers less than minInterval (5 s)       *)
(* apart the second is suppressed: it invokes no callback and leaves       *)
(* lastResumeTime.                                                         *)
(* Fails on the code: the interval is measured from the last accepted      *)
(* trigger, so a trigger that follows a suppressed one closely can be      *)
(* accepted.                                                               *)
(***************************************************************************)
C9_SecondSuppressed ==
    [][(TriggerStep /\ Since(prevTrigger) < 5)
          => (callbackCalls' = callbackCalls /\ lastResumeTime' = lastResumeTime)]_vars

(***************************************************************************)
(* C9, amended.  A resume trigger is suppressed (no callback, false        *)
(* result, lastResumeTime unchanged) exactly when less than minInterval    *)
(* (5 s) has passed since the last accepted trigger; otherwise it invokes  *)
(* the callback once and sets lastResumeTime.  So a trigger less than 5 s  *)
(* after an accepted one is suppressed, and two accepted triggers are at   *)
(* least 5 s apart.                                                        *)
(***************************************************************************)
C9_Debounce ==
    [][TriggerStep =>
          /\ IF now - lastResumeTime < 5
               THEN /\ callbackCalls' = callbackCalls
                    /\ lastResumeTime' = lastResumeTime
                    /\ ~pmLast'.ret
               ELSE /\ callbackCalls' = callbackCalls + 1
                    /\ lastResumeTime' = now
                    /\ pmLast'.ret
          /\ (prevTrigger = lastResumeTime /\ now - prevTrigger < 5)
                => callbackCalls' = callbackCalls
          /\ (callbackCalls' # callbackCalls /\ lastResumeTime # ZeroTime)
                => lastResumeTime' - lastResumeTime >= 5
      ]_vars

\* a legacy resume event was suppressed less than 5 s after an accepted
\* trigger
C9_Witness ==
    /\ pmLast.type = PBT_APMRESUMESUSPEND
    /\ pmLast.triggered
    /\ ~pmLast.ret
    /\ callbackCalls = 1
    /\ now - lastResumeTime \in 1..2

(***************************************************************************)
(* C10.  A display notification on a monitored GUID raises a resume        *)
(* trigger exactly when the recorded display state is off and the new      *)
(* state is on; it records the new state in every case.  Steps to off and  *)
(* steps to or from dimmed raise no trigger and invoke no callback.        *)
(***************************************************************************)
C10_DisplayEdge ==
    [][\A n \in Notifications :
          (Notify(n[1], n[2]) /\ MonitoredSetting(n[1], n[2])) =>
             /\ pmLast'.triggered <=>
                   (lastDisplayState = DisplayStateOff /\ n[2].data = DisplayStateOn)
             /\ lastDisplayState' = n[2].data
             /\ (callbackCalls' # callbackCalls) =>
                   (lastDisplayState = DisplayStateOff /\ n[2].data = DisplayStateOn)
      ]_vars

\* the display went off and on again, and the step to on invoked the
\* callback
C10_Witness ==
    /\ pmLast.type = PBT_POWERSETTINGCHANGE
    /\ pmLast.data.data = DisplayStateOn
    /\ pmLast.triggered
    /\ pmLast.ret
    /\ lastDisplayState = DisplayStateOn
    /\ callbackCalls = 1

\* the step ends a run of the orchestrator
OrchEnds == orch.pc # "idle" /\ orch'.pc = "idle"

C12_StartupRepair ==
    [][/\ \A res \in StatusSet \ {"OK"} :
            PollStartup(res) =>
               (PollInvokes /\ pollPc' = "start_settle" /\ lastStatus' = res)
       /\ pollPc = "init" => ~TickQueryStarts
      ]_vars

\* the startup callback runs at time 0 while the poller is paused: no tick
\* has been taken
C12_Witness ==
    /\ pollPc = "start_settle"
    /\ lastStatus = "Unknown"
    /\ paused
    /\ now = 0

(***************************************************************************)
(* C13.  In every reachable state pendingRepair implies that lastStatus    *)
(* is not OK; pendingRepair is false after a tick that observed OK and     *)
(* after a Resume() recheck that observed OK.                              *)
(***************************************************************************)
C13_PendingOnlyInError ==
    /\ [](pendingRepair => lastStatus # "OK")
    /\ [][/\ \A idle \in IdleResults : TickDecide("OK", idle) => ~pendingRepair'
          /\ ExceededTick("OK") => ~pendingRepair'
          /\ \A i \in 1..MaxRecheck : RecheckQuery(i, "OK") => ~pendingRepair'
         ]_vars

\* a tick has observed OK after a deferred repair: the mark is gone
C13_Witness ==
    /\ pollPc = "select"
    /\ lastStatus = "OK"
    /\ ~pendingRepair
    /\ now > 0
    /\ \E i \in 1..MaxRecheck : recheck[i] = "sleep"

\* flow f is at a read or a write of a field
AtAccess(f) == NextStatement(f).op \in {"read", "write"}

\* two flows are at the same field, one of them to write it
Race ==
    \E f \in Flows, g \in Flows :
       /\ f # g
       /\ AtAccess(f) /\ AtAccess(g)
       /\ NextStatement(f).field = NextStatement(g).field
       /\ "write" \in {NextStatement(f).op, NextStatement(g).op}

(***************************************************************************)
(* C14.  Every read and write of paused, pendingRepair, consecutiveFails,  *)
(* currentInterval, lastStatus and lastRepairTime is made by a flow that   *)
(* holds p.mu, and no two flows are at the same field at the same time.    *)
(* Fails on the code: poll() and the goroutine of Resume() access          *)
(* pendingRepair, lastStatus and lastRepairTime without the mutex.         *)
(***************************************************************************)
C14_AccessUnderMutex ==
    /\ ~Race
    /\ \A f \in Flows : AtAccess(f) => mu = f

(***************************************************************************)
(* C15.  No flow holds p.mu while it is in a status query, in the repair   *)
(* callback or in a sleep, so a flow that waits for p.mu never waits for   *)
(* the length of a repair.                                                 *)
(***************************************************************************)
C15_NoBlockingUnderMutex ==
    \A f \in Flows : NextStatement(f).op = "block" => mu # f

\* Pause() holds p.mu while the poll loop is in its callback and the
\* goroutine of Resume() in its sleep
C15_Witness ==
    /\ NextStatement("poll") = Block("callback")
    /\ NextStatement("recheck") = Block("sleep")
    /\ mu = "pause"

\* the step is the status query of a goroutine started by Resume()
RecheckQueryStarts ==
    \E i \in 1..MaxRecheck : recheck[i] = "sleep" /\ recheck'[i] # "sleep"

(***************************************************************************)
(* C16.  After Stop() the poller starts no status query and no repair      *)
(* callback any more, neither in the poll loop nor in a goroutine of       *)
(* Resume() that was still in its stabilization delay.                     *)
(* Fails on the code: the goroutine of Resume() never looks at stopChan,   *)
(* and a tick whose timer is ready together with the stop signal, or that  *)
(* is already under way, goes on to its query and its callback.            *)
(***************************************************************************)
C16_NothingAfterStop ==
    [][stopChan => ~(TickQueryStarts \/ PollInvokes
                     \/ RecheckQueryStarts \/ RecheckInvokes)]_vars

(***************************************************************************)
(* C17.  No failure ends the poll loop: after a failed status query, a     *)
(* failed repair or verification, or the exhaustion of the retries, the    *)
(* loop is back at its select, where it takes the next tick unless the     *)
(* poller is paused; the loop ends only on the stop signal.                *)
(***************************************************************************)
C17_LoopSurvivesFailures ==
    /\ [](pollPc = "done" => stopChan)
    /\ []((pollPc = "select" /\ ~paused) => ENABLED TickBegin)
    /\ [][/\ PollStartup(QueryErr) => pollPc' = "select"
          /\ \A idle \in IdleResults : TickDecide(QueryErr, idle) => pollPc' = "select"
          /\ \A res \in StatusResults : ExceededTick(res) => pollPc' = "select"
          /\ \A resetOk \in BOOLEAN, res \in StatusResults :
                PollReset(resetOk, res) => pollPc' = "select"
         ]_vars

\* the retries are exhausted and the loop has taken another tick
C17_Witness ==
    /\ exceededMaxRetry
    /\ pollPc = "exceeded_query"
    /\ consecutiveFails = maxRetryCount
    /\ ~stopChan

\* the step runs the callback the service registered with the PowerMonitor
ServiceCallbackRuns == pmPending' = pmPending - 1

\* the step starts a repair attempt outside the poll loop: handlePowerEvent
\* goes on to its settle delay, or Resume() starts its goroutine
AttemptStarts ==
    \/ svcPc = "idle" /\ svcPc' = "settle"
    \/ \E i \in 1..MaxRecheck : recheck[i] = "idle" /\ recheck'[i] = "sleep"

(***************************************************************************)
(* C18.  Every resume notification the PowerMonitor accepts leads through  *)
(* the registered callback to a repair attempt, also in the service that   *)
(* has the PowerMonitor installed and a poller that is not paused.         *)
(* Fails on the code: the registered callback only calls poller.Resume(),  *)
(* which does nothing on a poller that is not paused, and                  *)
(* handlePowerEvent returns as soon as the PowerMonitor has accepted the   *)
(* event.                                                                  *)
(***************************************************************************)
C18_AcceptedEventRepairs ==
    [][ServiceCallbackRuns => AttemptStarts]_vars

(***************************************************************************)
(* C19.  Every outcome of a run of the orchestrator (skip, success, reset  *)
(* error, status still abnormal after the reset, status unverifiable       *)
(* after the reset) is forwarded both to the statistics (RecordSkip or     *)
(* RecordReset) and to the notifier (NotifyResumeResult).                  *)
(* Fails on the code: an unverifiable outcome is never notified, a skip    *)
(* is notified only by handlePowerEvent and only under LogAllEvents.       *)
(***************************************************************************)
C19_OutcomesForwarded ==
    [][OrchEnds =>
          /\ stats'.skips + stats'.resetsOk + stats'.resetsFailed
                = stats.skips + stats.resetsOk + stats.resetsFailed + 1
          /\ notifier'.calls = notifier.calls + 1]_vars

(***************************************************************************)
(* C20.  With checkBeforeReset set, a run that finds the status OK after   *)
(* the settle delay is skipped: it ends there, RecordSkip is called once,  *)
(* RecordReset is not called, and the run has called neither Disable nor   *)
(* Enable (the device is only touched after the check).                    *)
(***************************************************************************)
C20_SkipWhenOK ==
    [][/\ (checkBeforeReset /\ OrchCheck("OK")) =>
             /\ orch'.pc = "idle"
             /\ orch'.record = "skip"
             /\ stats' = [stats EXCEPT !.skips = @ + 1]
             /\ devCalls' = devCalls
       /\ orch.pc \in {"idle", "settle"} => devCalls' = devCalls
      ]_vars

\* handlePowerEvent has skipped a run under checkBeforeReset: one skip
\* recorded, no reset recorded, the device untouched
C20_Witness ==
    /\ checkBeforeReset
    /\ orch.pc = "idle"
    /\ orch.path = "power"
    /\ orch.record = "skip"
    /\ orch.seen = "OK"
    /\ stats = [resumes |-> 1, skips |-> 1, resetsOk |-> 0, resetsFailed |-> 0]
    /\ devCalls = [disable |-> 0, enable |-> 0]

\* The statements of Reset that touch the device, in the order of the source
ResetOrder == << "GetStatus", "Disable", "Sleep", "Enable", "GetStatus" >>

IsPrefix(s, t) ==
    /\ Len(s) <= Len(t)
    /\ \A i \in 1..Len(s) : s[i] = t[i]

Ran(op) == \E i \in DOMAIN dm.calls : dm.calls[i] = op

(***************************************************************************)
(* C21.  What a call of Reset has run so far is always a prefix of         *)
(* status query, Disable, sleep, Enable, status query: Disable, the wait   *)
(* and Enable run in that order and each at most once.  When Disable       *)
(* failed the call has ended with Disable's error and Enable has not run;  *)
(* whenever Enable has run, Disable succeeded before it in the same call.  *)
(***************************************************************************)
C21_ResetOrder ==
    /\ IsPrefix(dm.calls, ResetOrder)
    /\ dm.disable \notin { NotSeen, NilErr } =>
          /\ dm.pc = "done"
          /\ dm.err = dm.disable
          /\ ~Ran("Enable")
    /\ Ran("Enable") => dm.disable = NilErr

\* a call of Reset has run all of its statements
C21_Witness ==
    /\ dm.pc = "done"
    /\ dm.calls = ResetOrder
    /\ dm.disable = NilErr

(***************************************************************************)
(* C22.  When Reset has returned, its error is nil exactly when Disable    *)
(* and Enable both succeeded, whatever its two status queries gave (a      *)
(* status, OK or not, or an error).                                        *)
(***************************************************************************)
C22_ResetResult ==
    dm.pc = "done" =>
        (dm.err = NilErr <=> (dm.disable = NilErr /\ dm.enable = NilErr))

\* Reset has returned nil although its first status query failed and its
\* last one still saw an error status
C22_Witness ==
    /\ dm.pc = "done"
    /\ dm.err = NilErr
    /\ dm.initial = QueryErr
    /\ dm.final = "Error"

(***************************************************************************)
(* C23.  Disable's error for a privilege failure differs from its error    *)
(* for any other failure, and a repair of the poller that failed on the    *)
(* privilege error is not counted as a retryable failure: when its         *)
(* callback returns, consecutiveFails and currentInterval are as before    *)
(* and the backoff is not fed.                                             *)
(***************************************************************************)
C23_PrivilegeNotRetried ==
    /\ [](\A a \in PsResults, b \in PsResults :
            (Disable(a) = ErrDisableNeedsAdmin /\ Disable(b) = ErrDisable)
               => ResetErr(a, PsOk) # ResetErr(b, PsOk))
    /\ [][\A out \in PsResults, res \in StatusResults :
            ( /\ Disable(out) = ErrDisableNeedsAdmin
              /\ PollReset(ResetErr(out, PsOk) = NilErr, res) )
               => /\ consecutiveFails' = consecutiveFails
                  /\ currentInterval' = currentInterval]_vars

(***************************************************************************)
(* C24.  Every repair attempt of the poller that fails, whether made at    *)
(* startup, in a tick or by the goroutine of Resume(), and whether Reset   *)
(* failed or the verification still saw an error, adds one to              *)
(* consecutiveFails when its callback returns.                             *)
(***************************************************************************)
C24_EveryFailureCounted ==
    [][\A resetOk \in BOOLEAN, res \in StatusResults :
          ( /\ ~PolledWakeResult(resetOk, res)
            /\ \/ PollReset(resetOk, res)
               \/ \E i \in 1..MaxRecheck : RecheckReset(i, resetOk, res) )
             => consecutiveFails' = consecutiveFails + 1]_vars

Min(a, b) == IF a <= b THEN a ELSE b

PollerFields ==
    << lastStatus, pendingRepair, lastRepairTime, consecutiveFails,
       currentInterval, paused, exceededMaxRetry >>

(***************************************************************************)
(* C26.  A tick of the exhausted poller only queries the status and        *)
(* invokes no callback.  If the status is OK the exhausted state is left   *)
(* with consecutiveFails 0, currentInterval baseRetryInterval and          *)
(* lastStatus OK, so that a tick which then sees an error while the user   *)
(* is active plans a repair for the status change.  If the status is not   *)
(* OK or the query fails, no field of the poller changes.                  *)
(***************************************************************************)
C26_ExhaustedTick ==
    [][\A res \in StatusResults :
          ExceededTick(res) =>
             /\ exceededMaxRetry
             /\ pollPc' = "select"
             /\ ~PollInvokes
             /\ IF res = "OK"
                  THEN /\ ~exceededMaxRetry'
                       /\ consecutiveFails' = 0
                       /\ currentInterval' = baseRetryInterval
                       /\ lastStatus' = "OK"
                       /\ \A st \in StatusSet \ {"OK"} :
                            (TickPlan(st, 0).reason)' = "status_change"
                  ELSE UNCHANGED PollerFields]_vars

\* the exhausted poller is about to query the status
C26_Witness ==
    /\ pollPc = "exceeded_query"
    /\ exceededMaxRetry
    /\ maxRetryCount > 0
    /\ consecutiveFails >= maxRetryCount
    /\ lastStatus # "OK"

(***************************************************************************)
(* C27.  A tick that finds an error status after an error status, with     *)
(* pendingRepair set: while the idle time is unknown or above 60 s (in     *)
(* whole seconds, as the poller measures it) the tick does nothing, does   *)
(* not invoke the callback and leaves pendingRepair set; with an idle time *)
(* of at most 60 s it invokes the callback in that tick, whatever          *)
(* currentInterval and lastRepairTime are, and pendingRepair is cleared.   *)
(***************************************************************************)
C27_WakeRepair ==
    [][\A res \in StatusSet \ {"OK"}, idle \in IdleResults :
          ( /\ TickDecide(res, idle)
            /\ lastStatus # "OK"
            /\ pendingRepair )
          => IF idle = IdleErr \/ IdleSec(idle) > 60
               THEN /\ pollPc' = "select"
                    /\ ~PollInvokes
                    /\ pendingRepair'
                    /\ UNCHANGED PollerFields
               ELSE /\ PollInvokes
                    /\ ~pendingRepair']_vars

\* the wake repair is running although the last repair was made at this
\* very time, so that no interval has elapsed since
C27_Witness ==
    /\ pollPc = "tick_settle"
    /\ reason = "wake_repair"
    /\ ~pendingRepair
    /\ lastStatus # "OK"
    /\ lastRepairTime = now

(***************************************************************************)
(* C28.  A tick that finds an error status after an error status, with     *)
(* pendingRepair not set, invokes the callback only if the idle time is    *)
(* known and at most 60 s and more than currentInterval has elapsed since  *)
(* lastRepairTime.                                                         *)
(***************************************************************************)
C28_SustainedRetry ==
    [][\A res \in StatusSet \ {"OK"}, idle \in IdleResults :
          ( /\ TickDecide(res, idle)
            /\ lastStatus # "OK"
            /\ ~pendingRepair
            /\ PollInvokes )
          => ( /\ idle # IdleErr
               /\ IdleSec(idle) <= 60
               /\ Since(lastRepairTime) > currentInterval )]_vars

(***************************************************************************)
(* C29.  A tick whose status query fails, in the exhausted state or not,   *)
(* ends at once: lastStatus, pendingRepair, consecutiveFails,              *)
(* currentInterval, lastRepairTime and exceededMaxRetry are unchanged and  *)
(* the callback is not invoked.                                            *)
(***************************************************************************)
C29_FailedQuerySkipped ==
    [][( \/ \E idle \in IdleResults : TickDecide(QueryErr, idle)
         \/ ExceededTick(QueryErr) )
       => /\ UNCHANGED << lastStatus, pendingRepair, consecutiveFails,
                          currentInterval, lastRepairTime, exceededMaxRetry >>
          /\ pollPc' = "select"
          /\ ~PollInvokes]_vars

\* a tick is about to query the status with a deferred repair pending and
\* a failed repair behind it
C29_Witness ==
    /\ pollPc = "tick_query"
    /\ pendingRepair
    /\ consecutiveFails = 1
    /\ lastStatus = "Error"
    /\ lastRepairTime # ZeroTime

(***************************************************************************)
(* C30.  HandlePowerBroadcast does not wait for the callback it starts:    *)
(* when it returns true the callback is one more running goroutine, and    *)
(* while callbacks are running pm.mu is free, so every notification can    *)
(* be handled (up to the number of callbacks explored), the ones inside    *)
(* the debounce window being suppressed without a new callback.            *)
(***************************************************************************)
C30_AsyncCallback ==
    /\ [][\A n \in Notifications :
            Notify(n[1], n[2]) =>
               IF pmLast'.ret
                 THEN /\ pmPending' = pmPending + 1
                      /\ callbackCalls' = callbackCalls + 1
                 ELSE /\ pmPending' = pmPending
                      /\ callbackCalls' = callbackCalls]_vars
    /\ []( ( /\ pmPending > 0
             /\ (callbackCalls < MaxCallbacks \/ Debounced) )
           => \A n \in Notifications : ENABLED Notify(n[1], n[2]) )

\* a resume notification was handled and debounced while the callback of
\* the earlier one is still running
C30_Witness ==
    /\ pmPending = 1
    /\ callbackCalls = 1
    /\ pmLast.triggered
    /\ ~pmLast.ret
    /\ prevTrigger > lastResumeTime

(***************************************************************************)
(* C31.  In handlePowerEvent with checkBeforeReset set, a status query     *)
(* that fails after the settle delay does not skip the run: nothing is     *)
(* recorded or notified at that point and the run goes on to Reset.  After *)
(* a Reset that succeeded the run is classified by the status queried      *)
(* then: success exactly when that status is OK.                           *)
(***************************************************************************)
C31_FailedCheckRepairs ==
    [][/\ ( /\ orch.path = "power"
            /\ checkBeforeReset
            /\ OrchCheck(QueryErr) )
          => /\ orch'.pc = "reset"
             /\ orch'.record = "none"
             /\ stats' = stats
             /\ notifier' = notifier
       /\ \A res \in StatusResults :
            ( /\ orch.path = "power"
              /\ checkBeforeReset
              /\ orch.seen = QueryErr
              /\ OrchVerify(res) )
            => orch'.record = IF res # QueryErr /\ EqualFoldOK(res)
                                THEN "reset_ok"
                                ELSE "reset_failed"]_vars

\* handlePowerEvent has run Reset after a failed status check and is about
\* to query the status again
C31_Witness ==
    /\ orch.path = "power"
    /\ checkBeforeReset
    /\ orch.pc = "verify"
    /\ orch.seen = QueryErr
    /\ devCalls.disable >= 1
    /\ devCalls.enable >= 1

(***************************************************************************)
(* C32.  In the service, a legacy resume event (7 or 18) that the          *)
(* PowerMonitor suppresses as a duplicate, less than 5 s after the trigger *)
(* it accepted, ends handlePowerEvent there: the settle delay and the      *)
(* Reset of handlePowerEvent do not follow.                                *)
(***************************************************************************)
C32_SuppressedEventIdle ==
    [][\A t \in {PBT_APMRESUMESUSPEND, PBT_APMRESUMEAUTOMATIC} :
          ( /\ SvcPowerEvent(t)
            /\ Since(lastResumeTime) < MinInterval )
          => svcPc' = "idle"]_vars

(***************************************************************************)
(* C33.  Every display value notified on a monitored GUID becomes          *)
(* lastDisplayState, whether the notification raises a trigger or not and  *)
(* whether the trigger is debounced or not.  Hence a display "on" that     *)
(* follows "dimmed" or "on" (off, dimmed, on; or an off-to-on step that    *)
(* was debounced, then "on" again) raises no trigger and starts no         *)
(* callback.                                                               *)
(***************************************************************************)
C33_DisplayStateRecorded ==
    [][\A n \in Notifications :
          ( /\ Notify(n[1], n[2])
            /\ MonitoredSetting(n[1], n[2]) )
          => /\ lastDisplayState' = n[2].data
             /\ lastDisplayState # DisplayStateOff =>
                   /\ ~pmLast'.triggered
                   /\ callbackCalls' = callbackCalls
                   /\ lastResumeTime' = lastResumeTime]_vars

\* a display step from off to on was debounced and "on" is recorded
C33_Witness ==
    /\ pmLast.type = PBT_POWERSETTINGCHANGE
    /\ pmLast.data.data = DisplayStateOn
    /\ pmLast.triggered
    /\ ~pmLast.ret
    /\ lastDisplayState = DisplayStateOn
    /\ lastResumeTime # ZeroTime

(***************************************************************************)
(* C34.  With maxRetryCount > 0 the poll loop is in its exhausted mode     *)
(* exactly when consecutiveFails has reached maxRetryCount, in every       *)
(* reachable state.                                                        *)
(***************************************************************************)
C34_ExhaustedIffLimit ==
    maxRetryCount > 0 =>
        (exceededMaxRetry <=> consecutiveFails >= maxRetryCount)

(***************************************************************************)
(* C35.  While paused is true a goroutine started by Resume() neither      *)
(* queries the device nor invokes the repair callback: one that is still   *)
(* in its stabilization delay when Pause() is called again does nothing.   *)
(***************************************************************************)
C35_PausedRecheckIdle ==
    [][paused => (~RecheckQueryStarts /\ ~RecheckInvokes)]_vars

FailedAndWaiting ==
    /\ pollPc = "select"
    /\ consecutiveFails \in 1..(MaxFails - 1)

(***************************************************************************)
(* C37.  With maxRetryCount = 0, the poller neither paused nor stopped and *)
(* every tick finding an error status with an idle time of at most 60 s:   *)
(* after a failed repair currentInterval is at most maxRetryInterval, a    *)
(* sustained-error tick invokes the callback exactly when more than        *)
(* currentInterval has elapsed since lastRepairTime, and such a tick       *)
(* comes: after each failed repair the callback is eventually invoked      *)
(* again.                                                                  *)
(***************************************************************************)
C37_RetriesRecur ==
    /\ [](consecutiveFails >= 1 => currentInterval <= maxRetryInterval)
    /\ [][\A res \in StatusSet \ {"OK"}, idle \in ActiveIdle :
            ( /\ TickDecide(res, idle)
              /\ lastStatus # "OK"
              /\ ~pendingRepair )
            => (PollInvokes <=> Since(lastRepairTime) > currentInterval)]_vars
    /\ (FailedAndWaiting ~> (pollPc = "tick_settle"))

\* a repair is running again after a failed one, at a tick later than
\* currentInterval after lastRepairTime
C37_Witness ==
    /\ maxRetryCount = 0
    /\ pollPc = "tick_settle"
    /\ consecutiveFails = 1
    /\ reason = "sustained"
    /\ lastRepairTime # ZeroTime
    /\ Since(lastRepairTime) > currentInterval

\* the call is made on the day of the last one (or is the first to set
\* the date): checkDateRollover resets nothing
SameDay == sm.LastStatDate \in { today, NoDate, BadDate }

(***************************************************************************)
(* C38.  On the day of the previous call, RecordResume adds 1 to           *)
(* TotalResumeEvents and changes no other counter; RecordReset(true, r)    *)
(* adds 1 to the total, today, week and month resets and changes no        *)
(* failure or skip counter; RecordReset(false, r) adds 1 to the four       *)
(* failure counters and changes no reset or skip counter; RecordSkip adds  *)
(* 1 to the four skip counters and sets LastResetResult to the skip text;  *)
(* RecordReset sets LastResetResult to r.  Apart from these, only the      *)
(* times of the last events and the date change.                           *)
(***************************************************************************)
C38_StatsCounters ==
    [][/\ (StatsRecordResume /\ SameDay) =>
             sm' = [sm EXCEPT !.TotalResumeEvents = @ + 1,
                              !.LastResumeTime = today,
                              !.LastStatDate = today]
       /\ \A r \in ResultTexts :
            /\ (StatsRecordReset(TRUE, r) /\ SameDay) =>
                  sm' = [sm EXCEPT !.TotalResets = @ + 1,
                                   !.TodayResets = @ + 1,
                                   !.WeekResets = @ + 1,
                                   !.MonthResets = @ + 1,
                                   !.LastResetResult = r,
                                   !.LastResetTime = today,
                                   !.LastEventTime = today,
                                   !.LastStatDate = today]
            /\ (StatsRecordReset(FALSE, r) /\ SameDay) =>
                  sm' = [sm EXCEPT !.TotalFailures = @ + 1,
                                   !.TodayFailures = @ + 1,
                                   !.WeekFailures = @ + 1,
                                   !.MonthFailures = @ + 1,
                                   !.LastResetResult = r,
                                   !.LastResetTime = today,
                                   !.LastEventTime = today,
                                   !.LastStatDate = today]
       /\ (StatsRecordSkip /\ SameDay) =>
             sm' = [sm EXCEPT !.TotalSkips = @ + 1,
                              !.TodaySkips = @ + 1,
                              !.WeekSkips = @ + 1,
                              !.MonthSkips = @ + 1,
                              !.LastResetResult = SkipText,
                              !.LastEventTime = today,
                              !.LastStatDate = today]]_vars

\* a repair, a failure and a skip were recorded on one day, the skip last
C38_Witness ==
    /\ sm.LastStatDate = today
    /\ sm.TodayResets = 1 /\ sm.WeekResets = 1 /\ sm.MonthResets = 1
    /\ sm.TodayFailures = 1 /\ sm.WeekFailures = 1 /\ sm.MonthFailures = 1
    /\ sm.TodaySkips = 1 /\ sm.WeekSkips = 1 /\ sm.MonthSkips = 1
    /\ sm.TotalResets = 1 /\ sm.TotalFailures = 1 /\ sm.TotalSkips = 1
    /\ sm.LastResetResult = SkipText
    /\ statsFile = sm

====
